---- MODULE Spec2Model ----
(***************************************************************************)
(* Model of mark.py: the mask factories, merge() and the module-level      *)
(* script that reads the template, merges and writes the output.           *)
(*                                                                         *)
(* Lengths are integers in tenths of a millimetre.  A PDF page is an entry *)
(* of `heap` (object identity = index); its value is the page's content    *)
(* stream, a sequence of drawing operations.  copy.copy allocates a new    *)
(* entry with the same content; mergePage rebinds the content of the page  *)
(* it is called on and of no other object.                                 *)
(***************************************************************************)
EXTENDS Integers, Sequences, FiniteSets, TLC

VARIABLES pc, error, context, students, mapping, numPages, heap, output_pdf,
          si, pi, page, mask, fi, calls, used, fh_in, fh_out, events, written,
          bpc, bargs, bmask, brect

vars == <<pc, error, context, students, mapping, numPages, heap, output_pdf,
          si, pi, page, mask, fi, calls, used, fh_in, fh_out, events, written,
          bpc, bargs, bmask, brect>>

mergeVars == <<pc, error, context, students, mapping, numPages, heap, output_pdf,
               si, pi, page, mask, fi, calls, used, fh_in, fh_out, events, written>>

boxVars == <<bpc, bargs, bmask, brect>>

-----------------------------------------------------------------------------
\* Bounds of the model.
MaxStudents == 2
MaxPages == 2
MaxMapping == 2
MaxDim == 3

-----------------------------------------------------------------------------
\* Units and page size.
mm == 10

A4 == <<210 * mm, 297 * mm>>

pagesize == A4

NoPage == 0

-----------------------------------------------------------------------------
\* Mask factories.

EmptyPageMask == [cls |-> "EmptyPageMask"]

\* Variant with a sign slip in the width.
TaskPageMaskWrongWidth(ps, box_height, left_margin, right_margin, top_margin) ==
    [cls |-> "TaskPageMask",
     left_margin |-> left_margin,
     right_margin |-> right_margin,
     top_margin |-> top_margin,
     box_height |-> box_height,
     box_width |-> ps[1] - left_margin + right_margin,
     bottom_margin |-> ps[2] - top_margin - box_height]

TaskPageMask(ps, box_height, left_margin, right_margin, top_margin) ==
    [cls |-> "TaskPageMask",
     left_margin |-> left_margin,
     right_margin |-> right_margin,
     top_margin |-> top_margin,
     box_height |-> box_height,
     box_width |-> ps[1] - left_margin - right_margin,
     bottom_margin |-> ps[2] - top_margin - box_height]

AnswerSheetMask(ps, box_height, box_width, right_margin, top_margin) ==
    [cls |-> "AnswerSheetMask",
     left_margin |-> ps[1] - right_margin - box_width,
     right_margin |-> right_margin,
     top_margin |-> top_margin,
     box_height |-> box_height,
     box_width |-> box_width,
     bottom_margin |-> ps[2] - top_margin - box_height]

MultipleMaskFactory(factories) ==
    [cls |-> "MultipleMaskFactory", factories |-> factories]

\* Drawing operations of the canvas.
Rect(x, y, w, h, stroke, fill) ==
    [op |-> "rect", x |-> x, y |-> y, w |-> w, h |-> h,
     stroke |-> stroke, fill |-> fill]

Format(fmt, args) == [fmt |-> fmt, args |-> args]

TaskRect(f) ==
    Rect(f.left_margin, f.bottom_margin, f.box_width, f.box_height, 1, 1)

AnswerRect(f) ==
    Rect(f.left_margin, f.bottom_margin, f.box_width, f.box_height, 0, 1)

TaskRender(f, ctx) ==
    << TaskRect(f),
       [op |-> "table",
        x |-> f.left_margin, y |-> f.bottom_margin,
        w |-> f.box_width, h |-> f.box_height,
        last_name |-> ctx.student.last_name,
        name |-> ctx.student.first_name,
        teacher |-> Format("{} {}", <<ctx.teacher.last_name,
                                      ctx.teacher.first_name>>),
        id |-> ctx.student.id,
        school |-> ctx.school] >>

\* Variant printing one-based page numbers.
AnswerRenderOneBased(f, ctx) ==
    << AnswerRect(f),
       [op |-> "drawString",
        x |-> f.left_margin + 2 * mm, y |-> f.bottom_margin + 2 * mm,
        text |-> Format("ID: {}", <<ctx.student.id>>)],
       [op |-> "drawRightString",
        x |-> f.left_margin + f.box_width - 2 * mm,
        y |-> f.bottom_margin + 2 * mm,
        text |-> Format("(Seite {})", <<ctx.page_num + 1>>)] >>

AnswerRender(f, ctx) ==
    << AnswerRect(f),
       [op |-> "drawString",
        x |-> f.left_margin + 2 * mm, y |-> f.bottom_margin + 2 * mm,
        text |-> Format("ID: {}", <<ctx.student.id>>)],
       [op |-> "drawRightString",
        x |-> f.left_margin + f.box_width - 2 * mm,
        y |-> f.bottom_margin + 2 * mm,
        text |-> Format("(Seite {})", <<ctx.page_num>>)] >>

\* render() of a leaf factory: the operations drawn on a fresh canvas.
Render(f, ctx) ==
    CASE f.cls = "EmptyPageMask" -> << >>
      [] f.cls = "TaskPageMask" -> TaskRender(f, ctx)
      [] f.cls = "AnswerSheetMask" -> AnswerRender(f, ctx)

-----------------------------------------------------------------------------
\* Document generation configuration.

simple_header_mask == AnswerSheetMask(pagesize, 10 * mm, 42 * mm, 11 * mm, 15 * mm)

\* left_margin = 20.5 * mm, right_margin = 14.5 * mm
task_mask ==
    TaskPageMask(pagesize, 25 * mm, (41 * mm) \div 2, (29 * mm) \div 2, 28 * mm)

\* The named factory objects a mapping entry can refer to.
Factory(name) ==
    CASE name = "empty" -> EmptyPageMask
      [] name = "header" -> simple_header_mask
      [] name = "task" -> task_mask
      [] name = "task+header" -> MultipleMaskFactory(<<"task", "header">>)
      [] name = "header only" -> MultipleMaskFactory(<<"header">>)
      [] name = "none" -> MultipleMaskFactory(<< >>)

FactoryNames == {"empty", "header", "task+header", "header only", "none"}

Student(first, last, id) == [first_name |-> first, last_name |-> last, id |-> id]

StudentPool == { Student("Jonathan", "Stoppani", 123455),
                 Student("Vanessa", "Tay", 98635),
                 Student("Jakub", "Janoszek", 19757) }

contextConfig == [teacher |-> [first_name |-> "Urs", last_name |-> "Moser"],
                  school |-> "DIVIO Test School"]

-----------------------------------------------------------------------------
\* Library objects.

SeqsUpTo(S, n) == UNION {[1..k -> S] : k \in 0..n}

\* Variants of dict.update: setdefault-like, and rebinding to a new dict.
UpdateSetDefault(d, k, v) ==
    [x \in DOMAIN d \cup {k} |-> IF x \in DOMAIN d THEN d[x] ELSE v]

UpdateReplace(d, k, v) == [x \in {k} |-> v]

\* dict.update({k: v})
Update(d, k, v) == [x \in DOMAIN d \cup {k} |-> IF x = k THEN v ELSE d[x]]

\* Page p (zero-based) of the input document is heap entry p + 1.
GetPage(p) == p + 1

TemplateContent(p) == << [op |-> "template", page |-> p] >>

\* PageObject._pushPopGS
PushPopGS(content) == << [op |-> "q"] >> \o content \o << [op |-> "Q"] >>

\* New content stream of PageObject.mergePage
MergeContent(c1, c2) == PushPopGS(c1) \o PushPopGS(c2)

MergePage(h, self, page2) == [h EXCEPT ![self] = MergeContent(h[self], h[page2])]

\* Variant without the copy: the template page object itself.
CopyAlias(h, src) == [heap |-> h, ref |-> src]

\* copy.copy(page): a new page object with the content of the original.
Copy(h, src) == [heap |-> Append(h, h[src]), ref |-> Len(h) + 1]

\* MaskFactory.get_mask_page: a fresh one-page document rendered by f.
GetMaskPage(h, f, ctx) == [heap |-> Append(h, Render(f, ctx)), ref |-> Len(h) + 1]

Call(name, ctx, ref) == [factory |-> name, context |-> ctx, page |-> ref]

-----------------------------------------------------------------------------
\* The script and merge().

Init ==
    /\ pc = "open_input"
    /\ error = "none"
    /\ context = contextConfig
    /\ students \in SeqsUpTo(StudentPool, MaxStudents)
    /\ mapping \in SeqsUpTo(FactoryNames, MaxMapping)
    /\ numPages \in 0..MaxPages
    /\ heap = [p \in 1..numPages |-> TemplateContent(p - 1)]
    /\ output_pdf = << >>
    /\ si = 0
    /\ pi = 0
    /\ page = NoPage
    /\ mask = NoPage
    /\ fi = 0
    /\ calls = << >>
    /\ used = {}
    /\ fh_in = "unopened"
    /\ fh_out = "unopened"
    /\ events = << >>
    /\ written = << >>
    /\ bpc = "off"
    /\ bargs = << >>
    /\ bmask = EmptyPageMask
    /\ brect = << >>

\* Variant opening both files in one with statement.
OpenInputAndOutput ==
    /\ pc = "open_input"
    /\ fh_in' = "open"
    /\ fh_out' = "open"
    /\ events' = events \o <<"open_in", "open_out">>
    /\ pc' = "merge"
    /\ UNCHANGED <<error, context, students, mapping, numPages, heap, output_pdf,
                   si, pi, page, mask, fi, calls, used, written>>
    /\ UNCHANGED boxVars

\* with open(input_path, 'rb') as fh: input_pdf = PdfFileReader(fh)
OpenInput ==
    /\ pc = "open_input"
    /\ fh_in' = "open"
    /\ events' = Append(events, "open_in")
    /\ pc' = "merge"
    /\ UNCHANGED <<error, context, students, mapping, numPages, heap, output_pdf,
                   si, pi, page, mask, fi, calls, used, fh_out, written>>
    /\ UNCHANGED boxVars

\* open(input_path) raises: nothing was opened.
OpenInputFails ==
    /\ pc = "open_input"
    /\ error' = "IOError"
    /\ pc' = "failed"
    /\ UNCHANGED <<context, students, mapping, numPages, heap, output_pdf,
                   si, pi, page, mask, fi, calls, used, fh_in, fh_out, events,
                   written>>
    /\ UNCHANGED boxVars

\* Variant validating the page count against the mapping up front.
MergeBeginValidated ==
    /\ pc = "merge"
    /\ output_pdf' = << >>
    /\ si' = 0
    /\ IF numPages > Len(mapping)
         THEN error' = "IndexError: mapping" /\ pc' = "raise"
         ELSE error' = error /\ pc' = "for_student"
    /\ UNCHANGED <<context, students, mapping, numPages, heap,
                   pi, page, mask, fi, calls, used, fh_in, fh_out, events, written>>
    /\ UNCHANGED boxVars

\* output_pdf = PdfFileWriter()
MergeBegin ==
    /\ pc = "merge"
    /\ output_pdf' = << >>
    /\ si' = 0
    /\ pc' = "for_student"
    /\ UNCHANGED <<error, context, students, mapping, numPages, heap,
                   pi, page, mask, fi, calls, used, fh_in, fh_out, events, written>>
    /\ UNCHANGED boxVars

\* for student in students: context.update({'student': student})
ForStudent ==
    /\ pc = "for_student"
    /\ IF si < Len(students)
         THEN /\ si' = si + 1
              /\ context' = Update(context, "student", students[si + 1])
              /\ pi' = 0
              /\ pc' = "for_page"
         ELSE /\ pc' = "return"
              /\ UNCHANGED <<si, context, pi>>
    /\ UNCHANGED <<error, students, mapping, numPages, heap, output_pdf,
                   page, mask, fi, calls, used, fh_in, fh_out, events, written>>
    /\ UNCHANGED boxVars

\* Variant whose range stops one page early.
ForPageOffByOne ==
    /\ pc = "for_page"
    /\ IF pi < numPages - 1
         THEN /\ pi' = pi + 1
              /\ context' = Update(context, "page_num", pi)
              /\ pc' = "copy"
         ELSE /\ pc' = "for_student"
              /\ UNCHANGED <<pi, context>>
    /\ UNCHANGED <<error, students, mapping, numPages, heap, output_pdf,
                   si, page, mask, fi, calls, used, fh_in, fh_out, events, written>>
    /\ UNCHANGED boxVars

\* for page_num in range(input_pdf.getNumPages()):
\*     context.update({'page_num': page_num})
ForPage ==
    /\ pc = "for_page"
    /\ IF pi < numPages
         THEN /\ pi' = pi + 1
              /\ context' = Update(context, "page_num", pi)
              /\ pc' = "copy"
         ELSE /\ pc' = "for_student"
              /\ UNCHANGED <<pi, context>>
    /\ UNCHANGED <<error, students, mapping, numPages, heap, output_pdf,
                   si, page, mask, fi, calls, used, fh_in, fh_out, events, written>>
    /\ UNCHANGED boxVars

\* page = copy.copy(input_pdf.getPage(page_num))
CopyPage ==
    /\ pc = "copy"
    /\ LET c == Copy(heap, GetPage(context.page_num))
       IN /\ heap' = c.heap
          /\ page' = c.ref
    /\ pc' = "lookup"
    /\ UNCHANGED <<error, context, students, mapping, numPages, output_pdf,
                   si, pi, mask, fi, calls, used, fh_in, fh_out, events, written>>
    /\ UNCHANGED boxVars

\* mapping[page_num]
Lookup ==
    /\ pc = "lookup"
    /\ IF context.page_num < Len(mapping)
         THEN /\ used' = used \cup {context.page_num}
              /\ pc' = "get_mask_page"
              /\ UNCHANGED error
         ELSE /\ error' = "IndexError: mapping"
              /\ pc' = "raise"
              /\ UNCHANGED used
    /\ UNCHANGED <<context, students, mapping, numPages, heap, output_pdf,
                   si, pi, page, mask, fi, calls, fh_in, fh_out, events, written>>
    /\ UNCHANGED boxVars

CurrentName == mapping[context.page_num + 1]

CurrentFactory == Factory(CurrentName)

\* MaskFactory.get_mask_page(context) on a mapping entry
LeafGetMaskPage ==
    /\ pc = "get_mask_page"
    /\ CurrentFactory.cls # "MultipleMaskFactory"
    /\ LET m == GetMaskPage(heap, CurrentFactory, context)
       IN /\ heap' = m.heap
          /\ mask' = m.ref
          /\ calls' = << Call(CurrentName, context, m.ref) >>
    /\ pc' = "merge_page"
    /\ UNCHANGED <<error, context, students, mapping, numPages, output_pdf,
                   si, pi, page, fi, used, fh_in, fh_out, events, written>>
    /\ UNCHANGED boxVars

\* MultipleMaskFactory.get_mask_page: page = self.factories[0].get_mask_page(context)
MultiFirst ==
    /\ pc = "get_mask_page"
    /\ CurrentFactory.cls = "MultipleMaskFactory"
    /\ LET fs == CurrentFactory.factories
       IN IF Len(fs) = 0
            THEN /\ error' = "IndexError: factories"
                 /\ calls' = << >>
                 /\ pc' = "raise"
                 /\ UNCHANGED <<heap, mask, fi>>
            ELSE LET m == GetMaskPage(heap, Factory(fs[1]), context)
                 IN /\ heap' = m.heap
                    /\ mask' = m.ref
                    /\ calls' = << Call(fs[1], context, m.ref) >>
                    /\ fi' = 1
                    /\ pc' = "multi_rest"
                    /\ UNCHANGED error
    /\ UNCHANGED <<context, students, mapping, numPages, output_pdf,
                   si, pi, page, used, fh_in, fh_out, events, written>>
    /\ UNCHANGED boxVars

\* Variant iterating self.factories instead of self.factories[1:].
MultiRestFromFirst ==
    /\ pc = "multi_rest"
    /\ LET fs == CurrentFactory.factories
       IN IF fi <= Len(fs)
            THEN LET m == GetMaskPage(heap, Factory(fs[fi]), context)
                 IN /\ heap' = MergePage(m.heap, mask, m.ref)
                    /\ calls' = Append(calls, Call(fs[fi], context, m.ref))
                    /\ fi' = fi + 1
                    /\ UNCHANGED pc
            ELSE /\ pc' = "merge_page"
                 /\ UNCHANGED <<heap, calls, fi>>
    /\ UNCHANGED <<error, context, students, mapping, numPages, output_pdf,
                   si, pi, page, mask, used, fh_in, fh_out, events, written>>
    /\ UNCHANGED boxVars

\* for f in self.factories[1:]: page.mergePage(f.get_mask_page(context))
\* return page
MultiRest ==
    /\ pc = "multi_rest"
    /\ LET fs == CurrentFactory.factories
       IN IF fi < Len(fs)
            THEN LET m == GetMaskPage(heap, Factory(fs[fi + 1]), context)
                 IN /\ heap' = MergePage(m.heap, mask, m.ref)
                    /\ calls' = Append(calls, Call(fs[fi + 1], context, m.ref))
                    /\ fi' = fi + 1
                    /\ UNCHANGED pc
            ELSE /\ pc' = "merge_page"
                 /\ UNCHANGED <<heap, calls, fi>>
    /\ UNCHANGED <<error, context, students, mapping, numPages, output_pdf,
                   si, pi, page, mask, used, fh_in, fh_out, events, written>>
    /\ UNCHANGED boxVars

\* page.mergePage(mask)
MergeMask ==
    /\ pc = "merge_page"
    /\ heap' = MergePage(heap, page, mask)
    /\ pc' = "add_page"
    /\ UNCHANGED <<error, context, students, mapping, numPages, output_pdf,
                   si, pi, page, mask, fi, calls, used, fh_in, fh_out, events,
                   written>>
    /\ UNCHANGED boxVars

\* Variant inserting the page at the front (insertPage(page, 0)).
AddPageFront ==
    /\ pc = "add_page"
    /\ output_pdf' = <<page>> \o output_pdf
    /\ pc' = "for_page"
    /\ UNCHANGED <<error, context, students, mapping, numPages, heap,
                   si, pi, page, mask, fi, calls, used, fh_in, fh_out, events,
                   written>>
    /\ UNCHANGED boxVars

\* output_pdf.addPage(page)
AddPage ==
    /\ pc = "add_page"
    /\ output_pdf' = Append(output_pdf, page)
    /\ pc' = "for_page"
    /\ UNCHANGED <<error, context, students, mapping, numPages, heap,
                   si, pi, page, mask, fi, calls, used, fh_in, fh_out, events,
                   written>>
    /\ UNCHANGED boxVars

\* return output_pdf
MergeReturn ==
    /\ pc = "return"
    /\ pc' = "open_output"
    /\ UNCHANGED <<error, context, students, mapping, numPages, heap, output_pdf,
                   si, pi, page, mask, fi, calls, used, fh_in, fh_out, events,
                   written>>
    /\ UNCHANGED boxVars

\* with open(output_path, 'wb') as fh:
OpenOutput ==
    /\ pc = "open_output"
    /\ fh_out' = "open"
    /\ events' = Append(events, "open_out")
    /\ pc' = "write"
    /\ UNCHANGED <<error, context, students, mapping, numPages, heap, output_pdf,
                   si, pi, page, mask, fi, calls, used, fh_in, written>>
    /\ UNCHANGED boxVars

\* output_pdf.write(fh)
WriteOutput ==
    /\ pc = "write"
    /\ written' = [i \in 1..Len(output_pdf) |-> heap[output_pdf[i]]]
    /\ events' = Append(events, "write")
    /\ pc' = "close_output"
    /\ UNCHANGED <<error, context, students, mapping, numPages, heap, output_pdf,
                   si, pi, page, mask, fi, calls, used, fh_in, fh_out>>
    /\ UNCHANGED boxVars

\* end of the inner with block
CloseOutput ==
    /\ pc = "close_output"
    /\ fh_out' = "closed"
    /\ events' = Append(events, "close_out")
    /\ pc' = "close_input"
    /\ UNCHANGED <<error, context, students, mapping, numPages, heap, output_pdf,
                   si, pi, page, mask, fi, calls, used, fh_in, written>>
    /\ UNCHANGED boxVars

\* end of the outer with block
CloseInput ==
    /\ pc = "close_input"
    /\ fh_in' = "closed"
    /\ events' = Append(events, "close_in")
    /\ pc' = "done"
    /\ UNCHANGED <<error, context, students, mapping, numPages, heap, output_pdf,
                   si, pi, page, mask, fi, calls, used, fh_out, written>>
    /\ UNCHANGED boxVars

\* An exception raised inside merge() leaves the outer with block.
Propagate ==
    /\ pc = "raise"
    /\ fh_in' = "closed"
    /\ events' = Append(events, "close_in")
    /\ pc' = "failed"
    /\ UNCHANGED <<error, context, students, mapping, numPages, heap, output_pdf,
                   si, pi, page, mask, fi, calls, used, fh_out, written>>
    /\ UNCHANGED boxVars

Next ==
    \/ OpenInput
    \/ OpenInputFails
    \/ MergeBegin
    \/ ForStudent
    \/ ForPage
    \/ CopyPage
    \/ Lookup
    \/ LeafGetMaskPage
    \/ MultiFirst
    \/ MultiRest
    \/ MergeMask
    \/ AddPage
    \/ MergeReturn
    \/ OpenOutput
    \/ WriteOutput
    \/ CloseOutput
    \/ CloseInput
    \/ Propagate

Spec == Init /\ [][Next]_vars

FairSpec == Init /\ [][Next]_vars /\ WF_vars(Next)

-----------------------------------------------------------------------------
\* Construction and rendering of a single box mask, for any page size and
\* any constructor arguments.

BoxDims == {i * mm : i \in 0..MaxDim}

BoxPageSizes == {A4, <<MaxDim * mm, (MaxDim + 1) * mm>>}

BoxContext == [teacher |-> contextConfig.teacher,
               school |-> contextConfig.school,
               student |-> Student("Jonathan", "Stoppani", 123455),
               page_num |-> 0]

InitBox ==
    /\ bpc = "new"
    /\ bargs \in [cls : {"TaskPageMask", "AnswerSheetMask"},
                  ps : BoxPageSizes,
                  box_height : BoxDims,
                  horizontal : BoxDims,
                  right_margin : BoxDims,
                  top_margin : BoxDims]
    /\ bmask = EmptyPageMask
    /\ brect = << >>
    /\ pc = "off"
    /\ error = "none"
    /\ context = contextConfig
    /\ students = << >>
    /\ mapping = << >>
    /\ numPages = 0
    /\ heap = << >>
    /\ output_pdf = << >>
    /\ si = 0
    /\ pi = 0
    /\ page = NoPage
    /\ mask = NoPage
    /\ fi = 0
    /\ calls = << >>
    /\ used = {}
    /\ fh_in = "unopened"
    /\ fh_out = "unopened"
    /\ events = << >>
    /\ written = << >>

\* TaskPageMask(box_height, left_margin, right_margin, top_margin)
ConstructTask ==
    /\ bpc = "new"
    /\ bargs.cls = "TaskPageMask"
    /\ bmask' = TaskPageMask(bargs.ps, bargs.box_height, bargs.horizontal,
                             bargs.right_margin, bargs.top_margin)
    /\ bpc' = "constructed"
    /\ UNCHANGED <<bargs, brect>>
    /\ UNCHANGED mergeVars

\* AnswerSheetMask(box_height, box_width, right_margin, top_margin)
ConstructAnswer ==
    /\ bpc = "new"
    /\ bargs.cls = "AnswerSheetMask"
    /\ bmask' = AnswerSheetMask(bargs.ps, bargs.box_height, bargs.horizontal,
                                bargs.right_margin, bargs.top_margin)
    /\ bpc' = "constructed"
    /\ UNCHANGED <<bargs, brect>>
    /\ UNCHANGED mergeVars

\* render(): the rectangle handed to canvas.rect
RenderBox ==
    /\ bpc = "constructed"
    /\ brect' = Head(Render(bmask, BoxContext))
    /\ bpc' = "rendered"
    /\ UNCHANGED <<bargs, bmask>>
    /\ UNCHANGED mergeVars

NextBox ==
    \/ ConstructTask
    \/ ConstructAnswer
    \/ RenderBox

SpecBox == InitBox /\ [][NextBox]_vars

-----------------------------------------------------------------------------
\* Vocabulary of the properties.

AfterMerge == {"open_output", "write", "close_output", "close_input", "done"}

Failing == {"raise", "failed"}

\* Output position i (one-based) belongs to this student index and page
\* index (both zero-based) in student-major, page-minor order.
StudentAt(i) == (i - 1) \div numPages

PageAt(i) == (i - 1) % numPages

OutputContent(i) == heap[output_pdf[i]]

\* The context as merge() is meant to pass it for student s, page p.
ExpectedContext(s, p) ==
    [teacher |-> contextConfig.teacher,
     school |-> contextConfig.school,
     student |-> students[s + 1],
     page_num |-> p]

\* The mask of a list of factories, computed as a left fold.
RECURSIVE FoldMasks(_, _, _)
FoldMasks(fs, ctx, k) ==
    IF k = 1 THEN Render(Factory(fs[1]), ctx)
    ELSE MergeContent(FoldMasks(fs, ctx, k - 1), Render(Factory(fs[k]), ctx))

ExpectedMask(name, ctx) ==
    IF Factory(name).cls = "MultipleMaskFactory"
      THEN FoldMasks(Factory(name).factories, ctx, Len(Factory(name).factories))
      ELSE Render(Factory(name), ctx)

ExpectedPage(s, p) ==
    MergeContent(TemplateContent(p), ExpectedMask(mapping[p + 1], ExpectedContext(s, p)))

TemplatesIn(c) == {c[j].page : j \in {k \in 1..Len(c) : c[k].op = "template"}}

StudentIdsIn(c) ==
    {c[j].id : j \in {k \in 1..Len(c) : c[k].op = "table"}}
    \cup {c[j].text.args[1] : j \in {k \in 1..Len(c) : c[k].op = "drawString"}}

PageNumbersIn(c) ==
    {c[j].text : j \in {k \in 1..Len(c) : c[k].op = "drawRightString"}}

CountOps(c, name) == Cardinality({k \in 1..Len(c) : c[k].op = name})

TwoDistinctStudents == Len(students) = 2 /\ students[1] # students[2]

-----------------------------------------------------------------------------
C2_Order ==
    /\ [](\A i \in 1..Len(output_pdf) :
            /\ StudentAt(i) < Len(students)
            /\ TemplatesIn(OutputContent(i)) = {PageAt(i)}
            /\ StudentIdsIn(OutputContent(i)) \subseteq {students[StudentAt(i) + 1].id})
    /\ [][\/ output_pdf' = output_pdf
          \/ /\ Len(output_pdf') = Len(output_pdf) + 1
             /\ SubSeq(output_pdf', 1, Len(output_pdf)) = output_pdf
             /\ StudentAt(Len(output_pdf')) = si - 1
             /\ PageAt(Len(output_pdf')) = pi - 1]_vars

C2_Witness ==
    /\ TwoDistinctStudents
    /\ numPages = 2
    /\ Len(output_pdf) = 4
    /\ StudentIdsIn(OutputContent(2)) = {students[1].id}
    /\ StudentIdsIn(OutputContent(3)) = {students[2].id}

\* C3: every output page for (s, p) is template page p with exactly one
\* mask merged onto it, the mask of mapping[p] rendered with
\* context['student'] = students[s], context['page_num'] = p and the
\* caller's teacher and school; every get_mask_page call made for (s, p)
\* received exactly that context.
C3_MaskContext ==
    /\ \A i \in 1..Len(output_pdf) :
         OutputContent(i) = ExpectedPage(StudentAt(i), PageAt(i))
    /\ \A k \in 1..Len(calls) :
         pc \in {"multi_rest", "merge_page", "add_page"}
           => calls[k].context = ExpectedContext(si - 1, pi - 1)

C3_Witness ==
    /\ TwoDistinctStudents
    /\ numPages = 2
    /\ Len(output_pdf) = 4
    /\ mapping[1] = "task+header"
    /\ mapping[2] = "header"
    /\ pc = "done"

\* C4: the template is left unmodified: at every point of the run every
\* page of input_pdf has the content it had before merge was called, and an
\* output page of student s carries one template layer and only the overlay
\* boxes of its own mask (nothing accumulated from other iterations).
C4_TemplateUnchanged ==
    /\ \A p \in 1..numPages :
         pc # "off" => heap[GetPage(p - 1)] = TemplateContent(p - 1)
    /\ \A i \in 1..Len(output_pdf) :
         /\ CountOps(OutputContent(i), "template") = 1
         /\ CountOps(OutputContent(i), "rect")
              = CountOps(ExpectedMask(mapping[PageAt(i) + 1],
                                      ExpectedContext(StudentAt(i), PageAt(i))),
                         "rect")
         /\ \A s \in 1..Len(students) :
              students[s].id \in StudentIdsIn(OutputContent(i))
                => students[s].id = students[StudentAt(i) + 1].id

C4_Witness ==
    /\ TwoDistinctStudents
    /\ numPages = 1
    /\ Len(output_pdf) = 2
    /\ mapping[1] = "header"
    /\ StudentIdsIn(OutputContent(2)) = {students[2].id}

C6_Multiple ==
    /\ (pc = "merge_page" /\ CurrentFactory.cls = "MultipleMaskFactory")
         => /\ Len(calls) = Len(CurrentFactory.factories)
            /\ \A k \in 1..Len(calls) :
                 /\ calls[k].factory = CurrentFactory.factories[k]
                 /\ calls[k].context = context
                 /\ \A j \in 1..Len(calls) :
                      j # k => calls[j].page # calls[k].page
            /\ mask = calls[1].page
            /\ heap[mask] = FoldMasks(CurrentFactory.factories, context,
                                      Len(CurrentFactory.factories))
            /\ Len(calls) = 1
                 => heap[mask] = Render(Factory(CurrentFactory.factories[1]), context)
    /\ (pc = "merge_page" /\ CurrentFactory.cls # "MultipleMaskFactory")
         => heap[mask] = Render(CurrentFactory, context)
    /\ (pc \in {"multi_rest", "merge_page", "add_page", "for_page", "for_student"}
          /\ si >= 1 /\ pi >= 1 /\ pi <= Len(mapping))
         => mapping[pi] # "none"
    /\ error = "IndexError: factories"
         => /\ CurrentFactory.cls = "MultipleMaskFactory"
            /\ CurrentFactory.factories = << >>
            /\ calls = << >>
            /\ pc \in Failing

C6_Witness ==
    /\ pc = "merge_page"
    /\ CurrentName = "task+header"
    /\ Len(calls) = 2
    /\ si = 2
    /\ used = {0, 1}

\* C7: the rectangle drawn by TaskPageMask and by AnswerSheetMask satisfies
\* left + width + right_margin = W and bottom + height + top_margin = H,
\* with the left edge at left_margin (TaskPageMask) or the width equal to
\* box_width (AnswerSheetMask); nothing is checked against the page, so the
\* width or the origin may be negative.
C7_Box ==
    bpc = "rendered"
      => /\ brect.x + brect.w + bargs.right_margin = bargs.ps[1]
         /\ brect.y + brect.h + bargs.top_margin = bargs.ps[2]
         /\ brect.h = bargs.box_height
         /\ bargs.cls = "TaskPageMask" => brect.x = bargs.horizontal
         /\ bargs.cls = "AnswerSheetMask" => brect.w = bargs.horizontal

C7_Witness ==
    /\ bpc = "rendered"
    /\ bargs.cls = "TaskPageMask"
    /\ brect.w < 0
    /\ brect.y < 0

\* C8: the page number AnswerSheetMask prints is the zero-based index of
\* the page in the template and restarts at 0 for every student.
C8_PageNumber ==
    \A i \in 1..Len(output_pdf) :
      PageNumbersIn(OutputContent(i))
        \subseteq {Format("(Seite {})", <<(i - 1) - StudentAt(i) * numPages>>)}

C8_Witness ==
    /\ Len(output_pdf) = 4
    /\ numPages = 2
    /\ PageNumbersIn(OutputContent(3)) = {Format("(Seite {})", <<0>>)}
    /\ PageNumbersIn(OutputContent(4)) = {Format("(Seite {})", <<1>>)}

\* C9: merge writes only the keys 'student' and 'page_num' of the caller's
\* context: every other key keeps its value at every point of the run;
\* 'page_num' is absent until the first page iteration and stale (N - 1)
\* between the start of a later student and that student's first page;
\* after a successful merge with students and pages the context holds the
\* last student and page_num = N - 1.
C9_ContextFrame ==
    pc # "off" =>
      /\ DOMAIN context \subseteq DOMAIN contextConfig \cup {"student", "page_num"}
      /\ \A k \in DOMAIN contextConfig :
           k \in DOMAIN context /\ context[k] = contextConfig[k]
      /\ "student" \in DOMAIN context <=> si >= 1
      /\ "page_num" \in DOMAIN context
           <=> (numPages > 0 /\ (si > 1 \/ (si = 1 /\ pi >= 1)))
      /\ (pc = "for_page" /\ pi = 0 /\ si > 1 /\ numPages > 0)
           => context.page_num = numPages - 1
      /\ (pc \in AfterMerge /\ students # << >> /\ numPages > 0)
           => /\ context.student = students[Len(students)]
              /\ context.page_num = numPages - 1

C9_Witness ==
    /\ pc = "done"
    /\ TwoDistinctStudents
    /\ numPages = 2
    /\ context.student = students[2]
    /\ context.page_num = 1

\* C10: the input file is opened first; the output file is opened only
\* after merge has returned for all students and pages; the output is
\* written and its file closed while the input file is open; the input
\* file is closed last.  On a failure before merge returns the output file
\* is never opened.
FullRun == <<"open_in", "open_out", "write", "close_out", "close_in">>

C10_ScriptOrder ==
    pc # "off" =>
      /\ \/ events = SubSeq(FullRun, 1, Len(events))
         \/ events = <<"open_in", "close_in">> /\ pc = "failed"
      /\ fh_out # "unopened"
           => /\ pc \in AfterMerge
              /\ error = "none"
              /\ Len(output_pdf) = Len(students) * numPages
      /\ fh_out = "open" => fh_in = "open"
      /\ written # << >> => fh_out # "unopened"
      /\ pc = "close_output" => fh_in = "open" /\ fh_out = "open"
      /\ pc = "done" => events = FullRun /\ fh_in = "closed" /\ fh_out = "closed"
      /\ pc \in Failing => fh_out = "unopened"
      /\ pc = "failed" => fh_in # "open"

C10_Witness ==
    /\ pc = "done"
    /\ events = FullRun
    /\ Len(written) = 4

====
